---- MODULE Spec2Model ----
(***************************************************************************)
(* A model of the GWAS catalog reader: the library variant                 *)
(* (src/gen_risk_lib/GWAS.hxx: FlatFile + GWAS) and the legacy variant     *)
(* (src/GWAS.hxx: GWAS alone).  Strings are sequences of one-character     *)
(* strings, indices are 0-based as in the source, and a call returns a     *)
(* record [exc, ret]: exc names the exception that left the call ("none"   *)
(* when it returned normally).                                              *)
(***************************************************************************)
EXTENDS Integers, Sequences, FiniteSets, TLC

VARIABLES variant, views, made, origin, last

vars == <<variant, views, made, origin, last>>

(***************************************************************************)
(* Bounds of the model.                                                    *)
(***************************************************************************)
MaxRows == 2
MaxViews == 3
MaxLen == 3

(***************************************************************************)
(* Characters and string literals.                                         *)
(***************************************************************************)
TAB == "\t"
NL == "\n"

DISEASE_TRAIT == <<"D","I","S","E","A","S","E","/","T","R","A","I","T">>
CHR_ID == <<"C","H","R","_","I","D">>
CHR_POS == <<"C","H","R","_","P","O","S">>
SNPS == <<"S","N","P","S">>
OR_or_BETA == <<"O","R"," ","o","r"," ","B","E","T","A">>
NOPE == <<"N","O","P","E">>

Digits == {"0","1","2","3","4","5","6","7","8","9"}

DigitVal(c) ==
    CASE c = "0" -> 0 [] c = "1" -> 1 [] c = "2" -> 2 [] c = "3" -> 3
      [] c = "4" -> 4 [] c = "5" -> 5 [] c = "6" -> 6 [] c = "7" -> 7
      [] c = "8" -> 8 [] c = "9" -> 9

EmptyMap == [x \in {} |-> 0]

\* m[k] = v of std::unordered_map: inserts the key or overwrites its value
Put(m, k, v) == [x \in (DOMAIN m) \cup {k} |-> IF x = k THEN v ELSE m[x]]

Ok(v) == [exc |-> "none", ret |-> v]
Throw(e) == [exc |-> e, ret |-> <<>>]

(***************************************************************************)
(* std::getline(stream, token, delim) in a loop: the pieces of s that end  *)
(* at a delimiter or at the end of s.  Once the stream is exhausted the    *)
(* next getline extracts nothing and fails, so no piece follows a final    *)
(* delimiter.                                                               *)
(***************************************************************************)
FirstAt(s, d) ==
    IF \E k \in 1..Len(s) : s[k] = d
    THEN CHOOSE k \in 1..Len(s) : s[k] = d /\ \A j \in 1..(k - 1) : s[j] # d
    ELSE 0

RECURSIVE getlineLoop(_, _)
getlineLoop(s, d) ==
    IF s = <<>> THEN <<>>
    ELSE LET k == FirstAt(s, d)
         IN IF k = 0 THEN <<s>>
            ELSE <<SubSeq(s, 1, k - 1)>> \o getlineLoop(SubSeq(s, k + 1, Len(s)), d)

getTokens(line) == getlineLoop(line, TAB)

(***************************************************************************)
(* get_lines: every line of the file; assert(!lines.empty()) aborts the    *)
(* process unless the build defines NDEBUG, which compiles the assert out. *)
(***************************************************************************)
assertNotEmpty(lines, ndebug) ==
    IF lines = <<>> /\ ~ndebug THEN Throw("abort") ELSE Ok(lines)

get_lines(file, ndebug) == assertNotEmpty(getlineLoop(file, NL), ndebug)

RECURSIVE initHeaderIndexMapLoop(_, _, _)
initHeaderIndexMapLoop(header, i, index_of) ==
    IF i < Len(header)
    THEN initHeaderIndexMapLoop(header, i + 1, Put(index_of, header[i + 1], i))
    ELSE index_of

\* initHeaderIndexMap with index_of.emplace(header[i], i): the first index stays
initHeaderIndexMap_first_wins(header, index_of) ==
    [n \in (DOMAIN index_of) \cup {header[k] : k \in 1..Len(header)} |->
        IF \E k \in 1..Len(header) : header[k] = n
        THEN (CHOOSE k \in 1..Len(header) :
                 header[k] = n /\ \A m \in 1..(k - 1) : header[m] # n) - 1
        ELSE index_of[n]]

initHeaderIndexMap(header, index_of) == initHeaderIndexMapLoop(header, 0, index_of)

\* FlatFile(strings a_header, std::vector<a_row> a_data), and the legacy
\* GWAS(strings a_header, std::vector<gwas_entry> a_data)
FlatFile(a_header, a_data) ==
    [header |-> a_header, data |-> a_data,
     index_of |-> initHeaderIndexMap(a_header, EmptyMap)]

RECURSIVE tokenizeAll(_)
tokenizeAll(lines) ==
    IF lines = <<>> THEN <<>>
    ELSE <<getTokens(Head(lines))>> \o tokenizeAll(Tail(lines))

(***************************************************************************)
(* FlatFile(const std::string& file), and the legacy GWAS(file).  With an  *)
(* empty vector of lines (an NDEBUG build) lines[0] and                    *)
(* lines.erase(lines.begin()) are undefined: ub is the outcome the build   *)
(* produces: a crash, or the string ub.g that the read of lines[0] yields. *)
(***************************************************************************)
FlatFileOfLines(r, ub) ==
    IF r.exc # "none" THEN r
    ELSE IF r.ret = <<>>
         THEN IF ub.crash THEN Throw("crash")
              ELSE Ok(FlatFile(getTokens(ub.g), <<>>))
         ELSE Ok(FlatFile(getTokens(r.ret[1]), tokenizeAll(Tail(r.ret))))

FlatFileLoad(file, ndebug, ub) == FlatFileOfLines(get_lines(file, ndebug), ub)

\* a constructor that looks the five column names up
GWASWrap_resolves(f) ==
    IF {DISEASE_TRAIT, CHR_POS, OR_or_BETA, CHR_ID, SNPS} \subseteq DOMAIN f.index_of
    THEN Ok(f) ELSE Throw("out_of_range")

\* explicit GWAS(FlatFile&& f) : file(std::move(f)) {}: nothing is looked up
GWASWrap(f) == Ok(f)

\* explicit GWAS(const std::string& file_nm) : file(FlatFile(file_nm)) {}
GWASOfFlatFile(r) == IF r.exc # "none" THEN r ELSE GWASWrap(r.ret)

GWASLoad(file, ndebug, ub) == GWASOfFlatFile(FlatFileLoad(file, ndebug, ub))

\* index_of.at(name): std::out_of_range when the map has no such key
at(index_of, name) ==
    IF name \in DOMAIN index_of THEN Ok(index_of[name]) ELSE Throw("out_of_range")

(***************************************************************************)
(* data[row][col] and gwas_entry[col]: unchecked.  A read past the end of  *)
(* a row is undefined; g is the string such a read yields.                 *)
(***************************************************************************)
InRange(row, col) == col < Len(row)

cellOf(row, col, g) == IF InRange(row, col) THEN row[col + 1] ELSE g

\* some read of column col of data is past the end of its row
ReadsPast(data, col) == \E i \in 1..Len(data) : ~InRange(data[i], col)

\* trim with new_data.insert(new_data.begin(), gwas_entry): newest row first
RECURSIVE trim_newest_first(_, _, _, _)
trim_newest_first(data, name_idx, col_value, g) ==
    IF data = <<>> THEN <<>>
    ELSE trim_newest_first(Tail(data), name_idx, col_value, g)
         \o (IF cellOf(Head(data), name_idx, g) = col_value THEN <<Head(data)>> ELSE <<>>)

\* trim whose loop ends at the first row that does not match
RECURSIVE trim_until_mismatch(_, _, _, _)
trim_until_mismatch(data, name_idx, col_value, g) ==
    IF data = <<>> THEN <<>>
    ELSE IF cellOf(Head(data), name_idx, g) = col_value
         THEN <<Head(data)>> \o trim_until_mismatch(Tail(data), name_idx, col_value, g)
         ELSE <<>>

RECURSIVE trim(_, _, _, _)
trim(data, name_idx, col_value, g) ==
    IF data = <<>> THEN <<>>
    ELSE (IF cellOf(Head(data), name_idx, g) = col_value THEN <<Head(data)>> ELSE <<>>)
         \o trim(Tail(data), name_idx, col_value, g)

\* subsetter2 with FlatFile(std::move(header), ...): the source loses its header
subsetter2_moves_header(f, name_idx, col_value, g) ==
    [self |-> [f EXCEPT !.header = <<>>],
     ret |-> FlatFile(f.header, trim(f.data, name_idx, col_value, g))]

\* FlatFile::subsetter2: the object after the call (self) and the returned one
subsetter2(f, name_idx, col_value, g) ==
    [self |-> f, ret |-> FlatFile(f.header, trim(f.data, name_idx, col_value, g))]

(***************************************************************************)
(* GWAS::subsetter(col_nm, col_value): the library wraps subsetter2's      *)
(* table; the legacy variant filters in place with the same loop.          *)
(***************************************************************************)
subsetterWrap(s) == [self |-> s.self, exc |-> "none", ret |-> GWASWrap(s.ret).ret]

subsetterAt(f, i, col_value, g) ==
    IF i.exc # "none" THEN [self |-> f, exc |-> i.exc, ret |-> <<>>]
    ELSE subsetterWrap(subsetter2(f, i.ret, col_value, g))

subsetter(f, col_nm, col_value, g) == subsetterAt(f, at(f.index_of, col_nm), col_value, g)

RECURSIVE unique_col(_, _, _)
unique_col(data, col_i, g) ==
    IF data = <<>> THEN {}
    ELSE {cellOf(Head(data), col_i, g)} \cup unique_col(Tail(data), col_i, g)

(***************************************************************************)
(* Numbers.  An unsigned long is [neg, mag]: mag is a decimal numeral      *)
(* without leading zeros, and the value is mag, or 2^64 - mag when neg     *)
(* (the wrapped negation of an unsigned value).  A double is               *)
(* [kind, neg, mant, exp]: kind "num" is (-1)^neg * mant * 10^exp with     *)
(* mant a numeral without leading or trailing zeros; "nan" and "inf" are   *)
(* the special values.                                                      *)
(***************************************************************************)
ULONG_MAX_DIGITS ==
    <<"1","8","4","4","6","7","4","4","0","7","3","7","0","9","5","5","1","6","1","5">>

\* the decimal digits from which a numeral of 309 digits rounds past DBL_MAX
DBL_MAX_DIGITS ==
    <<"1","7","9","7","6","9","3","1","3","4","8","6","2","3","1","5","8">>

DBL_MAX_10_EXP == 308
DBL_MIN_10_EXP == -323

ZeroDigits == <<"0">>

UL(neg, mag) == [neg |-> neg, mag |-> mag]
ULZero == UL(FALSE, ZeroDigits)
\* (unsigned long) -1
ULMinusOne == UL(TRUE, <<"1">>)

Dbl(kind, neg, mant, exp) == [kind |-> kind, neg |-> neg, mant |-> mant, exp |-> exp]
DblNaN == Dbl("nan", FALSE, ZeroDigits, 0)
DblMinusOne == Dbl("num", TRUE, <<"1">>, 0)

Max(S) == CHOOSE x \in S : \A y \in S : y <= x

\* the number of leading characters of s that are decimal digits
LeadDigits(s) == Max({k \in 0..Len(s) : \A j \in 1..k : s[j] \in Digits})

Drop(s, n) == SubSeq(s, n + 1, Len(s))

RECURSIVE StripLeadingZeros(_)
StripLeadingZeros(d) ==
    IF Len(d) > 1 /\ d[1] = "0" THEN StripLeadingZeros(Tail(d))
    ELSE IF d = <<>> THEN ZeroDigits ELSE d

RECURSIVE TrailingZeros(_)
TrailingZeros(d) ==
    IF Len(d) > 1 /\ d[Len(d)] = "0" THEN 1 + TrailingZeros(SubSeq(d, 1, Len(d) - 1))
    ELSE 0

DigitAt(d, i) == IF i <= Len(d) THEN DigitVal(d[i]) ELSE 0

\* a < b for digit strings read as decimal fractions 0.d1d2...
FracLess(a, b) ==
    \E i \in 1..Max({Len(a), Len(b)}) :
        /\ DigitAt(a, i) < DigitAt(b, i)
        /\ \A j \in 1..(i - 1) : DigitAt(a, j) = DigitAt(b, j)

\* a > b for numerals without leading zeros
NumeralGreater(a, b) ==
    \/ Len(a) > Len(b)
    \/ Len(a) = Len(b) /\ FracLess(b, a)

RECURSIVE ToInt(_)
ToInt(d) == IF d = <<>> THEN 0 ELSE 10 * ToInt(SubSeq(d, 1, Len(d) - 1)) + DigitVal(d[Len(d)])

\* the value of an exponent numeral, saturated so that it stays an integer
ExpValue(d) == LET n == StripLeadingZeros(d) IN IF Len(n) > 5 THEN 99999 ELSE ToInt(n)

IsSpace(c) == c \in {" ", "\t", "\n", "\r", "\f"}

RECURSIVE SkipSpace(_)
SkipSpace(s) == IF s # <<>> /\ IsSpace(s[1]) THEN SkipSpace(Tail(s)) ELSE s

ToLower(c) ==
    CASE c = "N" -> "n" [] c = "A" -> "a" [] c = "I" -> "i" [] c = "F" -> "f"
      [] OTHER -> c

HasPrefixNoCase(s, p) ==
    /\ Len(s) >= Len(p)
    /\ \A i \in 1..Len(p) : ToLower(s[i]) = p[i]

(***************************************************************************)
(* The scan that strtoul, strtod and the stream extraction share: an       *)
(* optional sign, then the longest numeral.  ok is FALSE when no           *)
(* conversion can be performed; rest is what follows the numeral.          *)
(***************************************************************************)
SignOf(s) == s # <<>> /\ s[1] = "-"

AfterSign(s) == IF s # <<>> /\ s[1] \in {"-", "+"} THEN Tail(s) ELSE s

\* the unsigned numeral that starts body: n digits, with the value mag
UnsignedOf(neg, body, n, mag) ==
    [ok |-> n > 0,
     neg |-> neg /\ mag # ZeroDigits,
     mag |-> mag,
     range |-> NumeralGreater(mag, ULONG_MAX_DIGITS),
     rest |-> Drop(body, n)]

UnsignedDigits(neg, body, n) ==
    UnsignedOf(neg, body, n, StripLeadingZeros(SubSeq(body, 1, n)))

ScanUnsigned(s) == UnsignedDigits(SignOf(s), AfterSign(s), LeadDigits(AfterSign(s)))

\* the exponent part at the start of s: e, an optional sign and n digits
ExponentOf(s, neg, body, n) ==
    IF n > 0
    THEN [exp |-> (IF neg THEN -1 ELSE 1) * ExpValue(SubSeq(body, 1, n)),
          rest |-> Drop(body, n)]
    ELSE [exp |-> 0, rest |-> s]

ScanExponent(s) ==
    IF s # <<>> /\ s[1] \in {"e", "E"}
    THEN ExponentOf(s, SignOf(Tail(s)), AfterSign(Tail(s)), LeadDigits(AfterSign(Tail(s))))
    ELSE [exp |-> 0, rest |-> s]

\* the double with the digits mant (no leading or trailing zero) times 10^exp
DecimalValue(ok, neg, mant, exp, rest) ==
    [ok |-> ok,
     val |-> IF mant # ZeroDigits /\ Len(mant) + exp <= DBL_MIN_10_EXP
             THEN Dbl("num", neg, ZeroDigits, 0)
             ELSE Dbl("num", neg, mant, exp),
     over |-> /\ mant # ZeroDigits
              /\ \/ Len(mant) + exp > DBL_MAX_10_EXP + 1
                 \/ Len(mant) + exp = DBL_MAX_10_EXP + 1 /\ ~FracLess(mant, DBL_MAX_DIGITS)
     ,
     range |-> /\ mant # ZeroDigits
               /\ \/ Len(mant) + exp > DBL_MAX_10_EXP + 1
                  \/ Len(mant) + exp = DBL_MAX_10_EXP + 1 /\ ~FracLess(mant, DBL_MAX_DIGITS)
                  \/ Len(mant) + exp <= DBL_MIN_10_EXP,
     rest |-> rest]

\* all: the digits of the mantissa; tz: how many of them are trailing zeros
DecimalDigits(ok, neg, all, tz, fp, ex, s) ==
    DecimalValue(ok, neg, SubSeq(all, 1, Len(all) - tz),
                 IF SubSeq(all, 1, Len(all) - tz) = ZeroDigits THEN 0 ELSE ex.exp - fp + tz,
                 IF ok THEN ex.rest ELSE s)

DecimalParts(neg, digits, fp, afterMant, s) ==
    DecimalDigits(Len(digits) > 0, neg, StripLeadingZeros(digits),
                  TrailingZeros(StripLeadingZeros(digits)), fp, ScanExponent(afterMant), s)

\* ip digits, then a point and fp digits when point
DecimalShape(neg, b, ip, point, fp, s) ==
    DecimalParts(neg,
                 SubSeq(b, 1, ip) \o (IF point THEN SubSeq(b, ip + 2, ip + 1 + fp) ELSE <<>>),
                 fp,
                 IF point THEN Drop(b, ip + 1 + fp) ELSE Drop(b, ip),
                 s)

DecimalPoint(neg, b, ip, point, s) ==
    DecimalShape(neg, b, ip, point,
                 IF point THEN LeadDigits(Drop(b, ip + 1)) ELSE 0, s)

ScanDecimal(neg, b, ip, s) ==
    DecimalPoint(neg, b, ip, Len(b) > ip /\ b[ip + 1] = ".", s)

Special(kind, neg, b) ==
    [ok |-> TRUE, val |-> Dbl(kind, neg, ZeroDigits, 0), over |-> FALSE, range |-> FALSE,
     rest |-> Drop(b, 3)]

ScanSigned(neg, b, s) ==
    IF HasPrefixNoCase(b, <<"n", "a", "n">>) THEN Special("nan", neg, b)
    ELSE IF HasPrefixNoCase(b, <<"i", "n", "f">>) THEN Special("inf", neg, b)
    ELSE ScanDecimal(neg, b, LeadDigits(b), s)

ScanDouble(s) == ScanSigned(SignOf(s), AfterSign(s), s)

(***************************************************************************)
(* boost::lexical_cast<T>(v): the whole of v must be one numeral, no       *)
(* space is skipped, and any failure (a value out of range included) is    *)
(* bad_lexical_cast.  A minus sign before an unsigned numeral negates the  *)
(* value modulo 2^64.                                                       *)
(***************************************************************************)
CastUnsigned(r) ==
    IF r.ok /\ r.rest = <<>> /\ ~r.range THEN Ok(UL(r.neg, r.mag))
    ELSE Throw("bad_lexical_cast")

CastDouble(v, r) ==
    IF r.ok /\ r.rest = <<>> /\ ~r.over /\ v[Len(v)] \notin {"e", "E", "-", "+"}
    THEN Ok(r.val)
    ELSE Throw("bad_lexical_cast")

lexical_cast(T, v) ==
    IF T = "unsigned long" THEN CastUnsigned(ScanUnsigned(v))
    ELSE CastDouble(v, ScanDouble(v))

\* std::numeric_limits<T>::quiet_NaN(): T() for a type that has no NaN
quiet_NaN(T) == IF T = "unsigned long" THEN ULZero ELSE DblNaN

\* the catch clause of parser
OrNaN(T, r) == IF r.exc = "none" THEN r.ret ELSE quiet_NaN(T)

\* template<typename T> auto parser(const std::string& v) -> T
parser(T, v) == OrNaN(T, lexical_cast(T, v))

\* std::isnan(x): an integer argument is converted to double first
isnan(T, x) == IF T = "unsigned long" THEN FALSE ELSE x.kind = "nan"

\* std::stoul(v) and std::stod(v)
StoulOf(r) ==
    IF ~r.ok THEN Throw("invalid_argument")
    ELSE IF r.range THEN Throw("out_of_range")
    ELSE Ok(UL(r.neg, r.mag))

stoul(v) == StoulOf(ScanUnsigned(SkipSpace(v)))

StodOf(r) ==
    IF ~r.ok THEN Throw("invalid_argument")
    ELSE IF r.range THEN Throw("out_of_range")
    ELSE Ok(r.val)

stod(v) == StodOf(ScanDouble(SkipSpace(v)))

\* x > 0
ULPositive(x) == x.mag # ZeroDigits
DblPositive(x) ==
    \/ x.kind = "inf" /\ ~x.neg
    \/ x.kind = "num" /\ ~x.neg /\ x.mant # ZeroDigits

(***************************************************************************)
(* The validity masks and their intersection.                              *)
(***************************************************************************)
RECURSIVE grab_mask_from(_, _, _, _, _)
grab_mask_from(data, i, idx, T, g) ==
    IF i < Len(data)
    THEN (IF ~isnan(T, parser(T, cellOf(data[i + 1], idx, g))) THEN <<i>> ELSE <<>>)
         \o grab_mask_from(data, i + 1, idx, T, g)
    ELSE <<>>

\* GWAS::grab_mask(idx, f) with f = parser<T>
grab_mask(data, idx, T, g) == grab_mask_from(data, 0, idx, T, g)

\* grab_mask(file.index_of.at(name), parser<T>): the argument is looked up first
grab_mask_at(f, idx, T, g) ==
    IF idx.exc # "none" THEN Throw(idx.exc) ELSE Ok(grab_mask(f.data, idx.ret, T, g))

Elems(a) == {a[k] : k \in 1..Len(a)}

RECURSIVE intersectLoop(_, _, _)
intersectLoop(s, b, intersect_mask) ==
    IF b = <<>> THEN intersect_mask
    ELSE intersectLoop(s, Tail(b),
                       IF Head(b) \in s THEN intersect_mask \cup {Head(b)}
                       ELSE intersect_mask)

\* intersect with std::set<scalar> s(a.begin(), a.end() - 1)
intersect_misses_last(a, b) == intersectLoop(Elems(SubSeq(a, 1, Len(a) - 1)), b, {})

\* std::set<scalar> s(a.begin(), a.end()), then the loop over b
intersect(a, b) == intersectLoop(Elems(a), b, {})

\* the order in which a range-for visits a std::set of indices
RECURSIVE Ascending(_)
Ascending(S) ==
    IF S = {} THEN <<>>
    ELSE LET m == CHOOSE x \in S : \A y \in S : x <= y
         IN <<m>> \o Ascending(S \ {m})

(***************************************************************************)
(* GWAS::positions_and_effect_size of the library: the loop over the       *)
(* intersection converts both cells again, outside any try block.          *)
(***************************************************************************)
\* pe.emplace_back(a_pos, effect_size), unless a conversion has thrown
emplace_back(pe, a_pos, effect_size) ==
    IF a_pos.exc # "none" THEN Throw(a_pos.exc)
    ELSE IF effect_size.exc # "none" THEN Throw(effect_size.exc)
    ELSE Ok(Append(pe.ret, <<a_pos.ret, effect_size.ret>>))

RECURSIVE pairsLoop(_, _, _, _, _, _)
pairsLoop(data, order, pos_i, es_i, g, pe) ==
    IF order = <<>> \/ pe.exc # "none" THEN pe
    ELSE pairsLoop(data, Tail(order), pos_i, es_i, g,
                   emplace_back(pe,
                       lexical_cast("unsigned long",
                                    cellOf(data[Head(order) + 1], pos_i, g)),
                       lexical_cast("double", cellOf(data[Head(order) + 1], es_i, g))))

pairsAt(f, pos_i, es_i, g) ==
    IF pos_i.exc # "none" THEN Throw(pos_i.exc)
    ELSE IF es_i.exc # "none" THEN Throw(es_i.exc)
    ELSE pairsLoop(f.data,
                   Ascending(intersect(grab_mask(f.data, pos_i.ret, "unsigned long", g),
                                       grab_mask(f.data, es_i.ret, "double", g))),
                   pos_i.ret, es_i.ret, g, Ok(<<>>))

positions_and_effect_size(f, g) ==
    pairsAt(f, at(f.index_of, CHR_POS), at(f.index_of, OR_or_BETA), g)

\* GWAS::uniqueDiseases and GWAS::uniqueRSIDs of the library
uniqueDiseases(f, g) ==
    LET i == at(f.index_of, DISEASE_TRAIT)
    IN IF i.exc # "none" THEN Throw(i.exc) ELSE Ok(unique_col(f.data, i.ret, g))

uniqueRSIDs(f, g) ==
    LET i == at(f.index_of, SNPS)
    IN IF i.exc # "none" THEN Throw(i.exc) ELSE Ok(unique_col(f.data, i.ret, g))

\* GWAS::size
size(f) == Ok(Len(f.data))

(***************************************************************************)
(* The legacy variant (src/GWAS.hxx).  Its masks convert with std::stoul   *)
(* and std::stod and catch std::invalid_argument alone.                    *)
(***************************************************************************)
\* the try block of positions_mask: a_pos = -1 on std::invalid_argument
positions_push(mask, i, r) ==
    IF r.exc \notin {"none", "invalid_argument"} THEN Throw(r.exc)
    ELSE Ok(mask.ret
            \o (IF ULPositive(IF r.exc = "invalid_argument" THEN ULMinusOne ELSE r.ret)
                THEN <<i>> ELSE <<>>))

RECURSIVE positions_mask_from(_, _, _, _, _)
positions_mask_from(data, i, idx, g, mask) ==
    IF i < Len(data) /\ mask.exc = "none"
    THEN positions_mask_from(data, i + 1, idx, g,
                             positions_push(mask, i, stoul(cellOf(data[i + 1], idx, g))))
    ELSE mask

positions_mask_at(f, idx, g) ==
    IF idx.exc # "none" THEN Throw(idx.exc)
    ELSE positions_mask_from(f.data, 0, idx.ret, g, Ok(<<>>))

positions_mask(f, g) == positions_mask_at(f, at(f.index_of, CHR_POS), g)

\* the try block of effect_size_mask: effect_size = -1 on std::invalid_argument
effect_size_push(mask, i, r) ==
    IF r.exc \notin {"none", "invalid_argument"} THEN Throw(r.exc)
    ELSE Ok(mask.ret
            \o (IF DblPositive(IF r.exc = "invalid_argument" THEN DblMinusOne ELSE r.ret)
                THEN <<i>> ELSE <<>>))

RECURSIVE effect_size_mask_from(_, _, _, _, _)
effect_size_mask_from(data, i, es_i, g, mask) ==
    IF i < Len(data) /\ mask.exc = "none"
    THEN effect_size_mask_from(data, i + 1, es_i, g,
                               effect_size_push(mask, i, stod(cellOf(data[i + 1], es_i, g))))
    ELSE mask

effect_size_mask_at(f, es_i, g) ==
    IF es_i.exc # "none" THEN Throw(es_i.exc)
    ELSE effect_size_mask_from(f.data, 0, es_i.ret, g, Ok(<<>>))

effect_size_mask(f, g) == effect_size_mask_at(f, at(f.index_of, OR_or_BETA), g)

RECURSIVE legacy_pairsLoop(_, _, _, _, _, _)
legacy_pairsLoop(data, order, idx, es_i, g, pe) ==
    IF order = <<>> \/ pe.exc # "none" THEN pe
    ELSE legacy_pairsLoop(data, Tail(order), idx, es_i, g,
                          emplace_back(pe,
                              stoul(cellOf(data[Head(order) + 1], idx, g)),
                              stod(cellOf(data[Head(order) + 1], es_i, g))))

legacy_pairsOfMasks(f, idx, es_i, pm, em, g) ==
    IF pm.exc # "none" THEN Throw(pm.exc)
    ELSE IF em.exc # "none" THEN Throw(em.exc)
    ELSE legacy_pairsLoop(f.data, Ascending(intersect(pm.ret, em.ret)),
                          idx.ret, es_i.ret, g, Ok(<<>>))

legacy_pairsAt(f, idx, es_i, g) ==
    IF idx.exc # "none" THEN Throw(idx.exc)
    ELSE IF es_i.exc # "none" THEN Throw(es_i.exc)
    ELSE legacy_pairsOfMasks(f, idx, es_i, positions_mask(f, g), effect_size_mask(f, g), g)

legacy_positions_and_effect_size(f, g) ==
    legacy_pairsAt(f, at(f.index_of, CHR_POS), at(f.index_of, OR_or_BETA), g)

legacy_uniqueDiseases(f, g) ==
    LET i == at(f.index_of, DISEASE_TRAIT)
    IN IF f.data = <<>> THEN Ok({})
       ELSE IF i.exc # "none" THEN Throw(i.exc)
       ELSE Ok(unique_col(f.data, i.ret, g))

starts_with(s, p) == Len(s) >= Len(p) /\ SubSeq(s, 1, Len(p)) = p

Contains(s, c) == \E k \in 1..Len(s) : s[k] = c

RECURSIVE legacy_rsidLoop(_, _, _)
legacy_rsidLoop(data, rsid_i, g) ==
    IF data = <<>> THEN {}
    ELSE LET rsid == cellOf(Head(data), rsid_i, g)
         IN (IF /\ starts_with(rsid, <<"r", "s">>)
                /\ ~Contains(rsid, " ")
                /\ ~Contains(rsid, TAB)
                /\ ~Contains(rsid, ";")
             THEN {rsid} ELSE {})
            \cup legacy_rsidLoop(Tail(data), rsid_i, g)

legacy_uniqueRSIDs(f, g) ==
    LET rsid_i == at(f.index_of, SNPS)
    IN IF rsid_i.exc # "none" THEN Throw(rsid_i.exc)
       ELSE Ok(legacy_rsidLoop(f.data, rsid_i.ret, g))

legacy_subsetter(f, col_name, col_value, g) ==
    LET name_idx == at(f.index_of, col_name)
    IN IF name_idx.exc # "none" THEN [self |-> f, exc |-> name_idx.exc, ret |-> <<>>]
       ELSE [self |-> f, exc |-> "none",
             ret |-> FlatFile(f.header, trim(f.data, name_idx.ret, col_value, g))]

(***************************************************************************)
(* The inputs: cells, rows, headers and files.                             *)
(***************************************************************************)
T2D == <<"T","2","D">>
t2d == <<"t","2","d">>
Chr6 == <<"6">>
ChrX == <<"X">>
Pos100 == <<"1","0","0">>
PosAbc == <<"a","b","c">>
PosNeg5 == <<"-","5">>
Pos0 == <<"0">>
Pos7 == <<"7">>
PosHuge == <<"9","9","9","9","9","9","9","9","9","9","9","9","9","9","9","9","9","9","9","9">>
Es1_5 == <<"1",".","5">>
EsHuge == <<"1","e","9","9","9">>
Empty == <<>>
Rs123 == <<"r","s","1","2","3">>
Rs1Rs2Semi == <<"r","s","1",";"," ","r","s","2">>
Nors1 == <<"n","o","r","s","1">>
Rs1Rs2Space == <<"r","s","1"," ","r","s","2">>

Row(dis, chr, pos, snp, es) ==
    [n \in {DISEASE_TRAIT, CHR_ID, CHR_POS, SNPS, OR_or_BETA} |->
        CASE n = DISEASE_TRAIT -> dis [] n = CHR_ID -> chr [] n = CHR_POS -> pos
          [] n = SNPS -> snp [] n = OR_or_BETA -> es]

R1 == Row(T2D, Chr6, Pos100, Rs123, Es1_5)
R2 == Row(t2d, Chr6, PosAbc, Rs1Rs2Semi, Es1_5)
R3 == Row(T2D, ChrX, PosNeg5, Nors1, Es1_5)
R4 == Row(T2D, Chr6, Pos0, Rs1Rs2Space, Es1_5)
R5 == Row(T2D, Chr6, Pos100, Rs123, Empty)
R6 == Row(t2d, ChrX, Pos7, Rs123, Es1_5)
R7 == Row(T2D, ChrX, PosHuge, Nors1, EsHuge)

\* the rows a file is drawn from, in the order they keep in the file
Catalog == <<R1, R2, R3, R4, R5, R6, R7>>

HeaderFull == <<DISEASE_TRAIT, CHR_ID, CHR_POS, SNPS, OR_or_BETA>>
HeaderNoSnps == <<DISEASE_TRAIT, CHR_ID, CHR_POS, OR_or_BETA>>
HeaderDup == <<SNPS, DISEASE_TRAIT, CHR_ID, CHR_POS, OR_or_BETA, SNPS>>

RECURSIVE Join(_, _)
Join(fields, d) ==
    IF fields = <<>> THEN <<>>
    ELSE IF Len(fields) = 1 THEN fields[1]
    ELSE fields[1] \o <<d>> \o Join(Tail(fields), d)

\* the line of a row under a header: one field per column, tabs between
LineOf(header, row) == Join([k \in 1..Len(header) |-> row[header[k]]], TAB)

RECURSIVE Text(_)
Text(lines) == IF lines = <<>> THEN <<>> ELSE Head(lines) \o <<NL>> \o Text(Tail(lines))

FileOf(header, rows) ==
    Text(<<Join(header, TAB)>> \o [k \in 1..Len(rows) |-> LineOf(header, rows[k])])

\* the rows of cat at the positions S, in order
Pick(cat, S) == [k \in 1..Cardinality(S) |-> cat[Ascending(S)[k]]]

RowSeqs(cat) ==
    {Pick(cat, S) : S \in {T \in SUBSET (1..Len(cat)) : Cardinality(T) <= MaxRows}}

\* the rows of the second and third end-to-end scenarios
Scenario == <<R1, R2, R3, R4>>

EmptyFile == <<>>

Files ==
    {FileOf(HeaderFull, rows) : rows \in RowSeqs(Catalog)}
        \cup {FileOf(h, rows) : h \in {HeaderNoSnps, HeaderDup}, rows \in RowSeqs(<<R1, R2>>)}
        \cup {FileOf(HeaderFull, Scenario), EmptyFile}

ColumnPool == {DISEASE_TRAIT, CHR_ID, NOPE}
ValuePool == {T2D, Chr6}

\* what a read past the end of a row, or of an empty vector of lines, may do:
\* crash the process or yield some string
Garbage == {Empty, Es1_5}
Undefined == {[crash |-> TRUE, g |-> Empty]} \cup {[crash |-> FALSE, g |-> g] : g \in Garbage}
Defined == {[crash |-> FALSE, g |-> Empty]}

(***************************************************************************)
(* The state: the build variant, the GWAS objects alive, what each was     *)
(* when it was made and where it came from, and the last call.             *)
(***************************************************************************)
NoArg == <<>>

Call(op, on, arg, exc, ret) == [op |-> op, on |-> on, arg |-> arg, exc |-> exc, ret |-> ret]

Snapshot(f) == [header |-> f.header, data |-> f.data, index_of |-> f.index_of]

Loaded == [parent |-> 0, col_nm |-> <<>>, col_value |-> <<>>]

Alive == last.exc \notin {"abort", "crash"}

\* The objects are automatic variables: each is made from the one declared
\* before it and they leave scope in reverse order, so the calls go to the
\* newest object alive.
Newest == Len(views)

\* the outcomes of a call that reads the columns cols of f
Outcomes(f, cols) ==
    IF \E c \in cols : ReadsPast(f.data, c) THEN Undefined ELSE Defined

IndexSet(f, names) == {f.index_of[n] : n \in names \cap DOMAIN f.index_of}

Init ==
    /\ variant \in {"lib", "legacy"}
    /\ views = <<>>
    /\ made = <<>>
    /\ origin = <<>>
    /\ last = Call("init", 0, NoArg, "none", <<>>)

\* the state after a construction with the outcome r
Constructed(file, ndebug, r) ==
    /\ last' = Call("load", 0, <<file, ndebug>>, r.exc, r.ret)
    /\ views' = IF r.exc = "none" THEN <<r.ret>> ELSE <<>>
    /\ made' = IF r.exc = "none" THEN <<Snapshot(r.ret)>> ELSE <<>>
    /\ origin' = IF r.exc = "none" THEN <<Loaded>> ELSE <<>>

Load ==
    /\ last.op = "init"
    /\ \E file \in Files, ndebug \in BOOLEAN, ub \in Undefined :
          Constructed(file, ndebug, GWASLoad(file, ndebug, ub))
    /\ UNCHANGED variant

\* the state after views[i].subsetter(col_nm, col_value) with the outcome r
Subset(i, col_nm, col_value, crash, r) ==
    IF crash
    THEN /\ last' = Call("subsetter", i, <<col_nm, col_value>>, "crash", <<>>)
         /\ UNCHANGED <<views, made, origin>>
    ELSE /\ last' = Call("subsetter", i, <<col_nm, col_value>>, r.exc, r.ret)
         /\ IF r.exc = "none"
            THEN /\ views' = Append([views EXCEPT ![i] = r.self], r.ret)
                 /\ made' = Append(made, Snapshot(r.ret))
                 /\ origin' = Append(origin, [parent |-> i, col_nm |-> col_nm,
                                              col_value |-> col_value])
            ELSE /\ views' = [views EXCEPT ![i] = r.self]
                 /\ UNCHANGED <<made, origin>>

Subsetter ==
    /\ Alive
    /\ Len(views) < MaxViews
    /\ \E i \in {Newest} \ {0}, col_nm \in ColumnPool, col_value \in ValuePool :
        \E ub \in Outcomes(views[i], IndexSet(views[i], {col_nm})) :
          Subset(i, col_nm, col_value, ub.crash,
                 IF variant = "lib"
                 THEN subsetter(views[i], col_nm, col_value, ub.g)
                 ELSE legacy_subsetter(views[i], col_nm, col_value, ub.g))
    /\ UNCHANGED variant

\* the state after a call that reads the object and returns r
Query(op, i, crash, r) ==
    /\ last' = IF crash THEN Call(op, i, NoArg, "crash", <<>>)
               ELSE Call(op, i, NoArg, r.exc, r.ret)
    /\ UNCHANGED <<variant, views, made, origin>>

Size ==
    /\ Alive
    /\ \E i \in {Newest} \ {0} :
        \E ub \in Outcomes(views[i], {}) :
          Query("size", i, ub.crash, size(views[i]))

UniqueDiseases ==
    /\ Alive
    /\ \E i \in {Newest} \ {0} :
        \E ub \in Outcomes(views[i], IndexSet(views[i], {DISEASE_TRAIT})) :
          Query("uniqueDiseases", i, ub.crash,
                IF variant = "lib" THEN uniqueDiseases(views[i], ub.g)
                ELSE legacy_uniqueDiseases(views[i], ub.g))

UniqueRSIDs ==
    /\ Alive
    /\ \E i \in {Newest} \ {0} :
        \E ub \in Outcomes(views[i], IndexSet(views[i], {SNPS})) :
          Query("uniqueRSIDs", i, ub.crash,
                IF variant = "lib" THEN uniqueRSIDs(views[i], ub.g)
                ELSE legacy_uniqueRSIDs(views[i], ub.g))

\* the columns positions_and_effect_size reads: none when a lookup throws
PairColumns(f) ==
    IF {CHR_POS, OR_or_BETA} \subseteq DOMAIN f.index_of
    THEN {CHR_POS, OR_or_BETA} ELSE {}

PositionsAndEffectSize ==
    /\ Alive
    /\ \E i \in {Newest} \ {0} :
        \E ub \in Outcomes(views[i], IndexSet(views[i], PairColumns(views[i]))) :
          Query("positions_and_effect_size", i, ub.crash,
                IF variant = "lib" THEN positions_and_effect_size(views[i], ub.g)
                ELSE legacy_positions_and_effect_size(views[i], ub.g))

\* the mask of the rows with a usable CHR_POS cell
PositionsMask ==
    /\ Alive
    /\ \E i \in {Newest} \ {0} :
        \E ub \in Outcomes(views[i], IndexSet(views[i], {CHR_POS})) :
          Query("positions_mask", i, ub.crash,
                IF variant = "lib"
                THEN grab_mask_at(views[i], at(views[i].index_of, CHR_POS),
                                  "unsigned long", ub.g)
                ELSE positions_mask(views[i], ub.g))

\* the mask of the rows with a usable OR or BETA cell
EffectSizeMask ==
    /\ Alive
    /\ \E i \in {Newest} \ {0} :
        \E ub \in Outcomes(views[i], IndexSet(views[i], {OR_or_BETA})) :
          Query("effect_size_mask", i, ub.crash,
                IF variant = "lib"
                THEN grab_mask_at(views[i], at(views[i].index_of, OR_or_BETA),
                                  "double", ub.g)
                ELSE effect_size_mask(views[i], ub.g))

\* the newest object leaves its scope (the end of a loop body in main)
ScopeExit ==
    /\ Alive
    /\ Len(views) > 1
    /\ views' = SubSeq(views, 1, Newest - 1)
    /\ made' = SubSeq(made, 1, Newest - 1)
    /\ origin' = SubSeq(origin, 1, Newest - 1)
    /\ last' = Call("scope_exit", Newest, NoArg, "none", <<>>)
    /\ UNCHANGED variant

Next ==
    \/ Load
    \/ Subsetter
    \/ Size
    \/ UniqueDiseases
    \/ UniqueRSIDs
    \/ PositionsAndEffectSize
    \/ PositionsMask
    \/ EffectSizeMask
    \/ ScopeExit

Spec == Init /\ [][Next]_vars

(***************************************************************************)
(* What the properties below speak about.                                  *)
(***************************************************************************)
Names(f) == Elems(f.header)

\* column c of f exists and every row of f has a cell in it
Readable(f, c) == c \in Names(f) /\ ~ReadsPast(f.data, f.index_of[c])

\* the cell of row k (from 1) of f under the column named c
CellAt(f, k, c) == f.data[k][f.index_of[c] + 1]

FilterOf(f, col_nm, col_value) ==
    IF variant = "lib" THEN subsetter(f, col_nm, col_value, Empty)
    ELSE legacy_subsetter(f, col_nm, col_value, Empty)

\* the last call was a filter of a column that could be read
Filtered ==
    /\ last.op = "subsetter"
    /\ last.exc # "crash"
    /\ Readable(views[last.on], last.arg[1])

(***************************************************************************)
(* C1: filtering a table by (column, value) never fails when the column    *)
(* exists; the result has the header of the source and holds exactly the   *)
(* source rows whose cell in that column equals the value, character for   *)
(* character, in their original order - so it has no more rows than the    *)
(* source, every row of it has the value in the column, and it is empty    *)
(* when no row matches.                                                     *)
(***************************************************************************)
FilterRowsContract ==
    Filtered =>
        LET src == views[last.on]
            col == last.arg[1]
            v == last.arg[2]
            keep == {k \in 1..Len(src.data) : CellAt(src, k, col) = v}
        IN /\ last.exc = "none"
           /\ last.ret.header = src.header
           /\ Len(last.ret.data) = Cardinality(keep)
           /\ Len(last.ret.data) <= Len(src.data)
           /\ \A j \in 1..Len(last.ret.data) :
                 /\ last.ret.data[j] = src.data[Ascending(keep)[j]]
                 /\ CellAt(last.ret, j, col) = v
           /\ (keep = {} => last.ret.data = <<>>)
           /\ views[last.on + 1] = last.ret

\* a filter kept several rows, in order, and dropped a row whose cell
\* differs from the value in letter case only
FilterRowsWitness ==
    /\ Filtered
    /\ last.arg = <<DISEASE_TRAIT, T2D>>
    /\ Len(last.ret.data) >= 2
    /\ \E k \in 1..Len(views[last.on].data) :
          CellAt(views[last.on], k, DISEASE_TRAIT) = t2d

\* a filter found no row with the value
FilterRowsEmptyWitness ==
    /\ Filtered
    /\ views[last.on].data # <<>>
    /\ last.ret.data = <<>>

(***************************************************************************)
(* C2: a table filtered by (c1, v1) and then by (c2, v2) is, row for row,  *)
(* the source filtered once by both conditions, and filtering in the       *)
(* other order gives the same table.                                        *)
(***************************************************************************)
\* views i, j, k: j is i filtered and k is j filtered, over readable columns
Chain(i, j, k) ==
    /\ origin[k].parent = j
    /\ origin[j].parent = i
    /\ i # 0
    /\ Readable(views[i], origin[j].col_nm)
    /\ Readable(views[i], origin[k].col_nm)

SequentialFilterIsConjunction ==
    \A i, j, k \in 1..Len(views) :
        Chain(i, j, k) =>
            LET src == views[i]
                c1 == origin[j].col_nm
                v1 == origin[j].col_value
                c2 == origin[k].col_nm
                v2 == origin[k].col_value
                both == {r \in 1..Len(src.data) :
                            CellAt(src, r, c1) = v1 /\ CellAt(src, r, c2) = v2}
                swapped == FilterOf(FilterOf(src, c2, v2).ret, c1, v1)
            IN /\ views[k].header = src.header
               /\ views[k].data = Pick(src.data, both)
               /\ swapped.exc = "none"
               /\ swapped.ret = views[k]

\* two filters on different columns, each of which dropped a row and the
\* second of which kept one
SequentialFilterWitness ==
    \E i, j, k \in 1..Len(views) :
        /\ Chain(i, j, k)
        /\ origin[j].col_nm # origin[k].col_nm
        /\ Len(views[k].data) > 0
        /\ Len(views[k].data) < Len(views[j].data)
        /\ Len(views[j].data) < Len(views[i].data)

(***************************************************************************)
(* Cells that hold a number greater than zero, and the pair of a row.      *)
(***************************************************************************)
PositionOk(cell) ==
    LET r == ScanUnsigned(cell)
    IN r.ok /\ r.rest = <<>> /\ ~r.range /\ ~r.neg /\ r.mag # ZeroDigits

EffectOk(cell) ==
    LET r == ScanDouble(cell)
    IN r.ok /\ r.rest = <<>> /\ ~r.range /\ DblPositive(r.val)

RowOk(f, k) == PositionOk(CellAt(f, k, CHR_POS)) /\ EffectOk(CellAt(f, k, OR_or_BETA))

OkRows(f) == {k \in 1..Len(f.data) : RowOk(f, k)}

PairOf(f, k) ==
    <<ScanUnsigned(CellAt(f, k, CHR_POS)).mag, ScanDouble(CellAt(f, k, OR_or_BETA)).val>>

\* an emitted pair, with the position as its numeral when it is below 2^64
\* as written and as "wrapped" when it is the negation of one
Emitted(p) == <<IF p[1].neg THEN <<"wrapped">> ELSE p[1].mag, p[2]>>

Column(f, c) == [k \in 1..Len(f.data) |-> CellAt(f, k, c)]

\* the last call was positions_and_effect_size on a table with both columns
PairsAsked ==
    /\ last.op = "positions_and_effect_size"
    /\ Readable(views[last.on], CHR_POS)
    /\ Readable(views[last.on], OR_or_BETA)

ScenarioTwo(f) ==
    /\ Column(f, CHR_POS) = <<Pos100, PosAbc, PosNeg5, Pos0>>
    /\ Column(f, OR_or_BETA) = <<Es1_5, Es1_5, Es1_5, Es1_5>>

(***************************************************************************)
(* C3: positions_and_effect_size emits no pair for a row whose CHR_POS or  *)
(* OR or BETA cell is empty, not a number or not greater than zero: every  *)
(* pair it returns is the pair of a row with two such cells, and for the   *)
(* rows with positions 100, abc, -5, 0 and effect size 1.5 it returns the  *)
(* one pair (100, 1.5).                                                     *)
(***************************************************************************)
PairsOnlyFromValidRows ==
    PairsAsked =>
        LET f == views[last.on]
        IN /\ last.exc = "none" =>
                /\ Len(last.ret) <= Cardinality(OkRows(f))
                /\ \A n \in 1..Len(last.ret) :
                      \E k \in OkRows(f) : Emitted(last.ret[n]) = PairOf(f, k)
           /\ ScenarioTwo(f) =>
                /\ last.exc = "none"
                /\ Len(last.ret) = 1
                /\ Emitted(last.ret[1]) = <<Pos100, Dbl("num", FALSE, <<"1", "5">>, -1)>>

(***************************************************************************)
(* C4: whatever the CHR_POS and OR or BETA cells hold, the call of         *)
(* positions_and_effect_size returns normally: no exception reaches the    *)
(* caller.                                                                  *)
(***************************************************************************)
PairsNeverThrow == PairsAsked => last.exc = "none"

(***************************************************************************)
(* C5: uniqueRSIDs returns exactly the distinct SNPS cells that start with *)
(* "rs" and hold no space, tab or semicolon.                               *)
(***************************************************************************)
WellFormedRsid(c) ==
    /\ Len(c) >= 2
    /\ c[1] = "r"
    /\ c[2] = "s"
    /\ \A k \in 1..Len(c) : c[k] \notin {" ", TAB, ";"}

UniqueRsidsAreWellFormed ==
    (last.op = "uniqueRSIDs" /\ Readable(views[last.on], SNPS)) =>
        LET f == views[last.on]
        IN /\ last.exc = "none"
           /\ last.ret = {c \in Elems(Column(f, SNPS)) : WellFormedRsid(c)}

(***************************************************************************)
(* C7: every row of every table has the length of the table's header, in   *)
(* particular in a table loaded from lines that all have as many           *)
(* tab-separated fields as the header line.                                *)
(***************************************************************************)
FieldCount(line) == 1 + Cardinality({k \in 1..Len(line) : line[k] = TAB})

SameShape(f) == \A k \in 1..Len(f.data) : Len(f.data[k]) = Len(f.header)

RowsHaveHeaderLength ==
    /\ \A i \in 1..Len(views) : SameShape(views[i])
    /\ (/\ last.op = "load"
        /\ last.exc = "none"
        /\ LET lines == getlineLoop(last.arg[1], NL)
           IN \A k \in 1..Len(lines) : FieldCount(lines[k]) = FieldCount(lines[1]))
       => SameShape(last.ret)

(***************************************************************************)
(* C8 as stated: no GWAS object exists over a table whose header lacks one *)
(* of the five column names.                                               *)
(***************************************************************************)
Required == {DISEASE_TRAIT, CHR_POS, OR_or_BETA, CHR_ID, SNPS}

Needs(op) ==
    CASE op = "uniqueDiseases" -> {DISEASE_TRAIT}
      [] op = "uniqueRSIDs" -> {SNPS}
      [] op = "positions_and_effect_size" -> {CHR_POS, OR_or_BETA}
      [] OTHER -> {}

EmptySourceFails ==
    (last.op = "load" /\ getlineLoop(last.arg[1], NL) = <<>>) =>
        /\ last.exc = "abort"
        /\ views = <<>>

(***************************************************************************)
(* C10: every object alive has the header, the rows and the column map it  *)
(* had when it was made, whatever filters and queries ran since.           *)
(***************************************************************************)
ViewsKeepTheirContents ==
    /\ Len(made) = Len(views)
    /\ \A i \in 1..Len(views) : Snapshot(views[i]) = made[i]

\* a table was filtered twice and its grandchild queried, and the filters
\* dropped rows
FrameWitness ==
    /\ Len(views) = 3
    /\ last.op \in {"uniqueDiseases", "uniqueRSIDs", "positions_and_effect_size", "size"}
    /\ last.exc = "none"
    /\ Len(views[3].data) < Len(views[2].data)
    /\ Len(views[2].data) < Len(views[1].data)

(***************************************************************************)
(* C11: a validity mask (grab_mask, positions_mask, effect_size_mask)      *)
(* holds row index i exactly when the whole cell of row i in the column    *)
(* parses as a number of the column's type (unsigned integer for CHR_POS,  *)
(* floating point for OR or BETA) and the number is greater than zero; a   *)
(* cell that does not parse (empty, not a number, trailing garbage, a      *)
(* negative unsigned) is never in the mask.                                *)
(***************************************************************************)
MaskColumn == IF last.op = "positions_mask" THEN CHR_POS ELSE OR_or_BETA

CellOk(cell) == IF last.op = "positions_mask" THEN PositionOk(cell) ELSE EffectOk(cell)

\* the last call computed a mask over a column that could be read
MaskAsked ==
    /\ last.op \in {"positions_mask", "effect_size_mask"}
    /\ last.exc = "none"
    /\ Readable(views[last.on], MaskColumn)

MaskHoldsPositiveNumbersOnly ==
    MaskAsked =>
        \A k \in 1..Len(views[last.on].data) :
            (k - 1) \in Elems(last.ret) <=> CellOk(CellAt(views[last.on], k, MaskColumn))

(***************************************************************************)
(* C12: positions_and_effect_size emits exactly one (position, effect      *)
(* size) pair for each row index in the intersection of the position mask  *)
(* and the effect-size mask, in ascending row index (not ascending         *)
(* position): the output is as long as the intersection, so at most as     *)
(* long as the table, and its n-th pair is the parse of the n-th smallest  *)
(* index of the intersection.                                              *)
(***************************************************************************)
MaskOf(f, c) ==
    IF variant = "lib"
    THEN grab_mask_at(f, at(f.index_of, c),
                      IF c = CHR_POS THEN "unsigned long" ELSE "double", Empty)
    ELSE IF c = CHR_POS THEN positions_mask(f, Empty) ELSE effect_size_mask(f, Empty)

\* the row indices in both masks of f
BothMasks(f) == Elems(MaskOf(f, CHR_POS).ret) \cap Elems(MaskOf(f, OR_or_BETA).ret)

\* the n-th smallest element of S, from 1
NthOf(S, n) == CHOOSE x \in S : Cardinality({y \in S : y < x}) = n - 1

\* what the conversions of the program make of row i (from 0) of f
ParsedPair(f, i) ==
    IF variant = "lib"
    THEN <<lexical_cast("unsigned long", CellAt(f, i + 1, CHR_POS)).ret,
           lexical_cast("double", CellAt(f, i + 1, OR_or_BETA)).ret>>
    ELSE <<stoul(CellAt(f, i + 1, CHR_POS)).ret, stod(CellAt(f, i + 1, OR_or_BETA)).ret>>

\* the last call was positions_and_effect_size on a table whose two masks exist
PairsOfMasksAsked ==
    /\ PairsAsked
    /\ last.exc # "crash"
    /\ MaskOf(views[last.on], CHR_POS).exc = "none"
    /\ MaskOf(views[last.on], OR_or_BETA).exc = "none"

OnePairPerMaskedRowInRowOrder ==
    PairsOfMasksAsked =>
        /\ last.exc = "none"
        /\ Len(last.ret) = Cardinality(BothMasks(views[last.on]))
        /\ Len(last.ret) <= Len(views[last.on].data)
        /\ \A n \in 1..Len(last.ret) :
              last.ret[n] = ParsedPair(views[last.on], NthOf(BothMasks(views[last.on]), n))

(***************************************************************************)
(* C13: in every table, made by a load or by a filter, index_of maps each  *)
(* name of the header to the greatest index at which the header holds it   *)
(* (the last occurrence wins) and has no entry for any other name; looking *)
(* a name up that is not in the header fails with std::out_of_range        *)
(* (UnknownColumn) and yields no table.                                    *)
(***************************************************************************)
LastIndexOf(header, n) ==
    CHOOSE j \in 0..(Len(header) - 1) :
        header[j + 1] = n /\ \A m \in (j + 1)..(Len(header) - 1) : header[m + 1] # n

IndexOfIsLastOccurrence ==
    /\ \A i \in 1..Len(views) :
          /\ DOMAIN views[i].index_of = Names(views[i])
          /\ \A n \in Names(views[i]) :
                views[i].index_of[n] = LastIndexOf(views[i].header, n)
    /\ (last.op = "subsetter" /\ last.arg[1] \notin Names(views[last.on])) =>
          /\ last.exc = "out_of_range"
          /\ last.ret = <<>>
          /\ last.on = Newest

\* a table filtered from one whose header holds SNPS twice, and a lookup in
\* it of a name its header does not hold
IndexOfWitness ==
    /\ Len(views) = 2
    /\ origin[2].parent = 1
    /\ views[2].header = HeaderDup
    /\ views[2].index_of[SNPS] = 5
    /\ last.op = "subsetter"
    /\ last.on = 2
    /\ last.arg[1] = NOPE
    /\ last.exc = "out_of_range"

(***************************************************************************)
(* intersect on its own: the two collections of row indices are drawn at   *)
(* the start, with repeated and unordered elements.                        *)
(***************************************************************************)
IndexSeqs == UNION {[1..n -> 0..(MaxRows - 1)] : n \in 0..MaxLen}

InitIntersect ==
    /\ variant \in {"lib", "legacy"}
    /\ views = <<>>
    /\ made = <<>>
    /\ origin = <<>>
    /\ \E a \in IndexSeqs, b \in IndexSeqs : last = Call("input", 0, <<a, b>>, "none", <<>>)

Intersect ==
    /\ last.op = "input"
    /\ last' = Call("intersect", 0, last.arg, "none", intersect(last.arg[1], last.arg[2]))
    /\ UNCHANGED <<variant, views, made, origin>>

NextIntersect == Intersect

SpecIntersect == InitIntersect /\ [][NextIntersect]_vars

(***************************************************************************)
(* C6: intersect(A, B) is the set of the indices that occur in both        *)
(* collections, whatever their order and repetitions; so it equals         *)
(* intersect(B, A), and intersect(A, A) is the set of the elements of A.   *)
(***************************************************************************)
IntersectIsSetIntersection ==
    last.op = "intersect" =>
        LET a == last.arg[1]
            b == last.arg[2]
        IN /\ last.ret = {x \in 0..(MaxRows - 1) :
                             (\E m \in 1..Len(a) : a[m] = x) /\ (\E n \in 1..Len(b) : b[n] = x)}
           /\ last.ret = intersect(b, a)
           /\ a = b => \A x \in 0..(MaxRows - 1) :
                          x \in last.ret <=> \E m \in 1..Len(a) : a[m] = x

\* an intersection of collections with a repeated element and in different
\* orders, which is neither empty nor all of A
IntersectWitness ==
    /\ last.op = "intersect"
    /\ last.arg[1] = <<1, 0, 1>>
    /\ last.arg[2] = <<0, 0>>
    /\ last.ret = {0}

====
